---- MODULE Spec2Model ----
(***************************************************************************)
(* A model of the bencode codec (src/src/bencode_decoder.rs) and of the    *)
(* metainfo layer built on it (src/src/main.rs).                           *)
(*                                                                         *)
(* Bytes are numbers 0..255 and a Vec<u8> is a sequence of them.  A Rust   *)
(* String is the sequence of its UTF-8 bytes.  A function that can panic   *)
(* is an operator that returns an outcome record: kind "ok" with the       *)
(* returned data, or kind "panic" with the panic's message.  The codec has *)
(* no Result type: a panic is the only way it signals a malformed input.   *)
(***************************************************************************)
EXTENDS Integers, Sequences, FiniteSets, TLC

VARIABLES
    pc,       \* what the driver did last
    self,     \* the Bencode value encode_value borrows as &mut self
    before,   \* self as it was when the last encode_value call started
    out,      \* the Vec<u8> returned by the last encode_value call
    prev,     \* the Vec<u8> returned by the encode_value call before that
    calls,    \* number of encode_value calls made on self
    buf,      \* the Vec<u8> handed to decode_value
    tail,     \* bytes that follow the first term in buf
    res,      \* outcome of decode_value(buf)
    base,     \* outcome of decode_value on buf before tail was appended
    parsed,   \* outcome of Info::parse(self)
    rebuilt,  \* outcome of to_bencode() on what parsed holds
    other,    \* outcome of the same calls on a second input, kept to compare
    stack     \* the frames of the decode_value calls that have not returned

vars ==
    <<pc, self, before, out, prev, calls, buf, tail, res, base, parsed, rebuilt,
      other, stack>>

-----------------------------------------------------------------------------
(* Bounds of the model.                                                    *)

\* a Bencode value drawn as encode_value's input has at most this many nodes
MaxNodes == 4
\* a raw decode input has at most this many bytes
MaxBufLen == 4
\* the text between i and e of an integer term has at most this many bytes
MaxDigits == 3
\* an info dictionary drawn as Info::parse's input has at most this many keys
MaxInfoKeys == 2
\* a file tree drawn as FileTree::parse's input has at most this many entries,
\* the entries of the leaf descriptors not counted
MaxTreeEntries == 3
\* a root dictionary drawn as Torrent::parse's input has at most this many keys
MaxRootKeys == 2
\* nodes of the values whose encodings decode_value is followed through
MaxCallNodes == 3
\* pairs of a dictionary encoding written with keys that may repeat
MaxPairs == 3

-----------------------------------------------------------------------------
(* Byte literals of the source.                                            *)

b_0 == 48
b_9 == 57
b_colon == 58
b_i == 105
b_e == 101
b_l == 108
b_d == 100
b_minus == 45
b_plus == 43
b_slash == 47

Range(s) == {s[k] : k \in 1..Len(s)}

\* slice s[from..to) with 0-based bounds, as Rust's s[from..to]
Slice(s, from, to) == SubSeq(s, from + 1, to)

\* s[from..]
SliceFrom(s, from) == SubSeq(s, from + 1, Len(s))

\* iter().position(|&c| c == b): 0-based index of the first b, -1 for None
Position(s, b) ==
    IF b \in Range(s)
    THEN (CHOOSE k \in 1..Len(s) : s[k] = b /\ \A j \in 1..(k - 1) : s[j] # b) - 1
    ELSE -1

-----------------------------------------------------------------------------
(* UTF-8, as core::str validates it.                                       *)

IsCont(b) == b \in 128..191

\* The number of bytes of the longest prefix of s that is either one valid
\* UTF-8 scalar (valid = TRUE) or a maximal invalid run (valid = FALSE), as
\* core::str::Utf8Chunks splits it.  s is not empty.
Utf8Step(s) ==
    LET n == Len(s)
        b1 == s[1]
        Second(lo, hi) == n >= 2 /\ s[2] \in lo..hi
        Third == n >= 3 /\ IsCont(s[3])
        Fourth == n >= 4 /\ IsCont(s[4])
        Three(lo, hi) ==
            IF ~Second(lo, hi) THEN [valid |-> FALSE, len |-> 1]
            ELSE IF ~Third THEN [valid |-> FALSE, len |-> 2]
            ELSE [valid |-> TRUE, len |-> 3]
        Four(lo, hi) ==
            IF ~Second(lo, hi) THEN [valid |-> FALSE, len |-> 1]
            ELSE IF ~Third THEN [valid |-> FALSE, len |-> 2]
            ELSE IF ~Fourth THEN [valid |-> FALSE, len |-> 3]
            ELSE [valid |-> TRUE, len |-> 4]
    IN  IF b1 < 128 THEN [valid |-> TRUE, len |-> 1]
        ELSE IF b1 \in 194..223
             THEN IF Second(128, 191) THEN [valid |-> TRUE, len |-> 2]
                  ELSE [valid |-> FALSE, len |-> 1]
        ELSE IF b1 = 224 THEN Three(160, 191)
        ELSE IF b1 \in (225..236) \cup {238, 239} THEN Three(128, 191)
        ELSE IF b1 = 237 THEN Three(128, 159)
        ELSE IF b1 = 240 THEN Four(144, 191)
        ELSE IF b1 \in 241..243 THEN Four(128, 191)
        ELSE IF b1 = 244 THEN Four(128, 143)
        ELSE [valid |-> FALSE, len |-> 1]

RECURSIVE IsUtf8(_)
\* String::from_utf8(s).is_ok()
IsUtf8(s) ==
    IF s = <<>> THEN TRUE
    ELSE LET st == Utf8Step(s)
         IN  st.valid /\ IsUtf8(SliceFrom(s, st.len))

\* U+FFFD REPLACEMENT CHARACTER in UTF-8
Replacement == <<239, 191, 189>>

RECURSIVE from_utf8_lossy(_)
\* String::from_utf8_lossy(s): every maximal invalid run becomes U+FFFD
from_utf8_lossy(s) ==
    IF s = <<>> THEN <<>>
    ELSE LET st == Utf8Step(s)
         IN  (IF st.valid THEN Slice(s, 0, st.len) ELSE Replacement)
                 \o from_utf8_lossy(SliceFrom(s, st.len))

-----------------------------------------------------------------------------
(* Fixed-width integers.  An i64 is its 64-bit two's complement pattern,   *)
(* held as four 16-bit limbs, least significant first; a u32 is two limbs. *)
(* A cast between widths keeps or drops limbs, exactly as `as` does.       *)

Limb == 65536
HalfLimb == 32768

Zero64 == <<0, 0, 0, 0>>

\* x * 10 + a on four limbs: [limbs, carry]; carry # 0 means 2^64 was reached
MulAdd10(x, a) ==
    LET t1 == x[1] * 10 + a
        t2 == x[2] * 10 + (t1 \div Limb)
        t3 == x[3] * 10 + (t2 \div Limb)
        t4 == x[4] * 10 + (t3 \div Limb)
    IN  [limbs |-> <<t1 % Limb, t2 % Limb, t3 % Limb, t4 % Limb>>,
         carry |-> t4 \div Limb]

\* x divided by 10 on four limbs: [q, r]
DivMod10(x) ==
    LET t4 == x[4]
        t3 == (t4 % 10) * Limb + x[3]
        t2 == (t3 % 10) * Limb + x[2]
        t1 == (t2 % 10) * Limb + x[1]
    IN  [q |-> <<t1 \div 10, t2 \div 10, t3 \div 10, t4 \div 10>>, r |-> t1 % 10]

\* two's complement negation: !x + 1
Negate(x) ==
    LET n1 == (Limb - 1 - x[1]) + 1
        n2 == (Limb - 1 - x[2]) + (n1 \div Limb)
        n3 == (Limb - 1 - x[3]) + (n2 \div Limb)
        n4 == (Limb - 1 - x[4]) + (n3 \div Limb)
    IN  <<n1 % Limb, n2 % Limb, n3 % Limb, n4 % Limb>>

IsNegative(x) == x[4] >= HalfLimb

\* the i64 of a small number of the model, |n| < 2^31
I64(n) ==
    IF n >= 0 THEN <<n % Limb, n \div Limb, 0, 0>>
    ELSE Negate(<<(-n) % Limb, (-n) \div Limb, 0, 0>>)

\* `x as u32` of an i64: the low 32 bits
AsU32(x) == <<x[1], x[2]>>

\* `x as u8` of an i64: the low 8 bits
AsU8(x) == x[1] % 256

\* i64::from(u32), `u as i64`: zero extension
U32ToI64(u) == <<u[1], u[2], 0, 0>>

\* i64::from(u8)
U8ToI64(u) == <<u, 0, 0, 0>>

-----------------------------------------------------------------------------
(* Integer <-> text, as core::fmt and core::num do it.                     *)

IsDigit(b) == b \in b_0..b_9

RECURSIVE ToDec(_)
\* usize::to_string of a length: the decimal digits of n >= 0
ToDec(n) ==
    IF n < 10 THEN <<b_0 + n>>
    ELSE ToDec(n \div 10) \o <<b_0 + (n % 10)>>

RECURSIVE NatToDec(_)
\* the decimal digits of an unsigned four-limb number
NatToDec(x) ==
    LET dm == DivMod10(x)
    IN  IF dm.q = Zero64 THEN <<b_0 + dm.r>>
        ELSE NatToDec(dm.q) \o <<b_0 + dm.r>>

\* format!("{i}") of an i64
FormatInt(i) ==
    IF IsNegative(i) THEN <<b_minus>> \o NatToDec(Negate(i)) ELSE NatToDec(i)

RECURSIVE ParseNat(_)
\* the unsigned value of a run of digits: [ok, limbs]; ok is FALSE once the
\* value reaches 2^64
ParseNat(s) ==
    IF s = <<>> THEN [ok |-> TRUE, limbs |-> Zero64]
    ELSE LET head == ParseNat(Slice(s, 0, Len(s) - 1))
             step == MulAdd10(head.limbs, s[Len(s)] - b_0)
         IN  [ok |-> head.ok /\ step.carry = 0, limbs |-> step.limbs]

\* str::parse::<i64>: an optional sign, + or -, then one or more digits, and
\* the value within -2^63 .. 2^63 - 1.  [ok, n]
parse_i64(s) ==
    LET signed == s # <<>> /\ s[1] \in {b_plus, b_minus}
        digits == IF signed THEN SliceFrom(s, 1) ELSE s
        neg == signed /\ s[1] = b_minus
        mag == ParseNat(digits)
        fits == IF neg
                THEN ~IsNegative(mag.limbs) \/ mag.limbs = <<0, 0, 0, HalfLimb>>
                ELSE ~IsNegative(mag.limbs)
    IN  IF digits = <<>> \/ \E k \in 1..Len(digits) : ~IsDigit(digits[k])
        THEN [ok |-> FALSE, n |-> Zero64]
        ELSE IF ~mag.ok \/ ~fits THEN [ok |-> FALSE, n |-> Zero64]
        ELSE [ok |-> TRUE, n |-> IF neg THEN Negate(mag.limbs) ELSE mag.limbs]

\* str::parse::<usize>: an optional +, then one or more digits, and the value
\* below 2^64.  [ok, n]
parse_usize(s) ==
    LET signed == s # <<>> /\ s[1] = b_plus
        digits == IF signed THEN SliceFrom(s, 1) ELSE s
        mag == ParseNat(digits)
    IN  IF digits = <<>> \/ \E k \in 1..Len(digits) : ~IsDigit(digits[k])
        THEN [ok |-> FALSE, n |-> Zero64]
        ELSE IF ~mag.ok THEN [ok |-> FALSE, n |-> Zero64]
        ELSE [ok |-> TRUE, n |-> mag.limbs]

\* whether the usize n is at most the length m of a buffer of the model
AtMost(n, m) == n[4] = 0 /\ n[3] = 0 /\ n[2] = 0 /\ n[1] <= m

-----------------------------------------------------------------------------
(* enum Bencode.  Every value carries all four payload fields so that any   *)
(* two values can be compared; only the field of its variant is used.       *)
(* A Dictionary is the IndexMap's entries in insertion order.               *)

BString(s) == [t |-> "String", s |-> s, i |-> Zero64, l |-> <<>>, d |-> <<>>]
BInteger(i) == [t |-> "Integer", s |-> <<>>, i |-> i, l |-> <<>>, d |-> <<>>]
BList(l) == [t |-> "List", s |-> <<>>, i |-> Zero64, l |-> l, d |-> <<>>]
BDictionary(d) == [t |-> "Dictionary", s |-> <<>>, i |-> Zero64, l |-> <<>>, d |-> d]

\* stands where the program holds no value
NoValue == [t |-> "None", s |-> <<>>, i |-> Zero64, l |-> <<>>, d |-> <<>>]

Entry(k, v) == [k |-> k, v |-> v]

Keys(d) == {d[j].k : j \in 1..Len(d)}

\* IndexMap::get: [found, v]
Get(d, k) ==
    IF k \in Keys(d)
    THEN [found |-> TRUE, v |-> d[CHOOSE j \in 1..Len(d) : d[j].k = k].v]
    ELSE [found |-> FALSE, v |-> NoValue]

\* IndexMap::insert: a new key goes last, a key already there keeps its place
\* and takes the new value
Insert(d, k, v) ==
    IF k \in Keys(d)
    THEN [j \in 1..Len(d) |-> IF d[j].k = k THEN Entry(k, v) ELSE d[j]]
    ELSE Append(d, Entry(k, v))

-----------------------------------------------------------------------------
(* Bencode::encode_value(&mut self) -> Vec<u8>                             *)

RECURSIVE encode_value(_)
\* the bytes the call returns
encode_value(v) ==
    LET Items(l) ==
            LET F[n \in 0..Len(l)] ==
                    IF n = 0 THEN <<>> ELSE F[n - 1] \o encode_value(l[n])
            IN  F[Len(l)]
        Entries(d) ==
            LET F[n \in 0..Len(d)] ==
                    IF n = 0 THEN <<>>
                    ELSE F[n - 1] \o encode_value(BString(d[n].k))
                                  \o encode_value(d[n].v)
            IN  F[Len(d)]
    IN  CASE v.t = "String" -> ToDec(Len(v.s)) \o <<b_colon>> \o v.s
          [] v.t = "Integer" -> <<b_i>> \o FormatInt(v.i) \o <<b_e>>
          [] v.t = "List" -> <<b_l>> \o Items(v.l) \o <<b_e>>
          [] v.t = "Dictionary" -> <<b_d>> \o Entries(v.d) \o <<b_e>>

RECURSIVE encode_value_self(_)
\* *self when the call returns: Vec::append moved the payload of every
\* String out of it; a key is encoded from a clone and stays
encode_value_self(v) ==
    CASE v.t = "String" -> BString(<<>>)
      [] v.t = "Integer" -> v
      [] v.t = "List" -> BList([n \in 1..Len(v.l) |-> encode_value_self(v.l[n])])
      [] v.t = "Dictionary" ->
            BDictionary([n \in 1..Len(v.d) |->
                            Entry(v.d[n].k, encode_value_self(v.d[n].v))])

-----------------------------------------------------------------------------
(* Bencode::decode_value(encoded_value: Vec<u8>) -> (Self, Vec<u8>)         *)

Ok(v, rest) == [kind |-> "ok", v |-> v, rest |-> rest, msg |-> ""]
Panic(msg) == [kind |-> "panic", v |-> NoValue, rest |-> <<>>, msg |-> msg]

\* the b'0'..=b'9' arm
decode_string(x) ==
    LET index == Position(x, b_colon)
        len_bytes == Slice(x, 0, index)
        rest == SliceFrom(x, index)
        len == parse_usize(len_bytes)
        n == len.n[1]
    IN  IF index = -1 THEN Panic("Error decoding Bencode string")
        ELSE IF ~IsUtf8(len_bytes) THEN Panic("unwrap on Err: FromUtf8Error")
        ELSE IF ~len.ok THEN Panic("Error decoding Bencode string")
        ELSE IF ~AtMost(len.n, Len(rest) - 1) THEN Panic("slice index out of range")
        ELSE Ok(BString(Slice(rest, 1, n + 1)), SliceFrom(rest, n + 1))

\* the b'i' arm
decode_integer(x) ==
    LET body == SliceFrom(x, 1)
        p == Position(body, b_e)
        number_bytes == Slice(body, 0, p)
        rest == SliceFrom(body, p + 1)
        number == parse_i64(number_bytes)
    IN  IF p = -1 THEN Panic("unwrap on None")
        ELSE IF number_bytes = <<>> THEN Panic("unwrap on None")
        ELSE IF number_bytes[1] = b_0 /\ Len(number_bytes) > 1
             THEN Panic("All encodings with a leading zero are invalid, other than i0e")
        ELSE IF number_bytes = <<b_minus, b_0>> THEN Panic("i-0e is invalid")
        ELSE IF ~IsUtf8(number_bytes) THEN Panic("unwrap on Err: FromUtf8Error")
        ELSE IF ~number.ok THEN Panic("unwrap on Err: ParseIntError")
        ELSE Ok(BInteger(number.n), rest)

RECURSIVE decode_value(_)
RECURSIVE decode_list(_, _)
RECURSIVE decode_dict(_, _)

\* one turn of the loop of the b'l' arm, and the turns after it
decode_list(list_string, list) ==
    LET item == decode_value(list_string)
        pushed == Append(list, item.v)
    IN  IF item.kind = "panic" THEN item
        ELSE IF item.rest = <<>> THEN Panic("unwrap on None")
        ELSE IF item.rest[1] = b_e THEN Ok(BList(pushed), SliceFrom(item.rest, 1))
        ELSE decode_list(item.rest, pushed)

\* one turn of the while-let loop of the b'd' arm, and the turns after it
decode_dict(dict_string, dict) ==
    LET key == decode_value(dict_string)
        value == decode_value(key.rest)
        inserted == Insert(dict, key.v.s, value.v)
    IN  IF key.kind = "panic" THEN key
        ELSE IF key.v.t # "String" THEN Panic("Error decoding Bencode dictionary")
        ELSE IF value.kind = "panic" THEN value
        ELSE IF ~IsUtf8(key.v.s) THEN Panic("unwrap on Err: FromUtf8Error")
        ELSE IF value.rest = <<>> THEN Panic("unwrap on None")
        ELSE IF value.rest[1] = b_e
             THEN Ok(BDictionary(inserted), SliceFrom(value.rest, 1))
        ELSE decode_dict(value.rest, inserted)

decode_value(x) ==
    IF x = <<>> THEN Panic("unwrap on None")
    ELSE IF IsDigit(x[1]) THEN decode_string(x)
    ELSE IF x[1] = b_i THEN decode_integer(x)
    ELSE IF x[1] = b_l THEN decode_list(SliceFrom(x, 1), <<>>)
    ELSE IF x[1] = b_d THEN decode_dict(SliceFrom(x, 1), <<>>)
    ELSE Panic("Unhandled encoded value")

-----------------------------------------------------------------------------
(* The metainfo types of src/src/main.rs.  There the dictionary keys are    *)
(* Vec<u8>.  An Option is a record [some, v]; a u32 is two limbs.           *)

\* b"announce"
k_announce == <<97, 110, 110, 111, 117, 110, 99, 101>>
\* b"info"
k_info == <<105, 110, 102, 111>>
\* b"piece layers"
k_piece_layers == <<112, 105, 101, 99, 101, 32, 108, 97, 121, 101, 114, 115>>
\* b"name"
k_name == <<110, 97, 109, 101>>
\* b"piece length"
k_piece_length == <<112, 105, 101, 99, 101, 32, 108, 101, 110, 103, 116, 104>>
\* b"meta version"
k_meta_version == <<109, 101, 116, 97, 32, 118, 101, 114, 115, 105, 111, 110>>
\* b"file tree"
k_file_tree == <<102, 105, 108, 101, 32, 116, 114, 101, 101>>
\* b"pieces"
k_pieces == <<112, 105, 101, 99, 101, 115>>
\* b"private"
k_private == <<112, 114, 105, 118, 97, 116, 101>>
\* b"length"
k_length == <<108, 101, 110, 103, 116, 104>>
\* b"md5sum"
k_md5sum == <<109, 100, 53, 115, 117, 109>>
\* b"files"
k_files == <<102, 105, 108, 101, 115>>
\* b"attr"
k_attr == <<97, 116, 116, 114>>
\* b"path"
k_path == <<112, 97, 116, 104>>
\* b"pieces root"
k_pieces_root == <<112, 105, 101, 99, 101, 115, 32, 114, 111, 111, 116>>

Some(v) == [some |-> TRUE, v |-> v]
None(default) == [some |-> FALSE, v |-> default]

ZeroU32 == <<0, 0>>

\* enum FileTree: File(name, File {length, pieces_root}) and
\* Directory(name, children)
FileNode(name, length, pieces_root) ==
    [t |-> "File", name |-> name, length |-> length,
     pieces_root |-> pieces_root, children |-> <<>>]
DirectoryNode(name, children) ==
    [t |-> "Directory", name |-> name, length |-> ZeroU32,
     pieces_root |-> None(<<>>), children |-> children]

\* FileTree::default()
DefaultFileTree == DirectoryNode(<<>>, <<>>)

\* struct FileV1
FileV1(length, md5sum, path, attr) ==
    [length |-> length, md5sum |-> md5sum, path |-> path, attr |-> attr]

\* Option<FileModeV1>
NoFileMode == [t |-> "None", length |-> ZeroU32, md5sum |-> None(<<>>), files |-> <<>>]
SingleMode(length, md5sum) ==
    [t |-> "Single", length |-> length, md5sum |-> md5sum, files |-> <<>>]
MultipleMode(files) ==
    [t |-> "Multiple", length |-> ZeroU32, md5sum |-> None(<<>>), files |-> files]

\* Info::default()
DefaultInfo ==
    [name |-> <<>>, piece_length |-> ZeroU32, meta_version |-> 0,
     file_tree |-> DefaultFileTree, pieces |-> None(<<>>),
     private |-> None(FALSE), file_mode |-> NoFileMode]

\* the outcome of a parse: the data it returns, or the panic that ends it
Parsed(data) == [kind |-> "ok", data |-> data, msg |-> ""]
ParsePanic(msg) == [kind |-> "panic", data |-> <<>>, msg |-> msg]

RECURSIVE Chunks(_, _)
\* slice::chunks(n): pieces of n bytes, the last one shorter when the length
\* is no multiple of n
Chunks(s, n) ==
    IF s = <<>> THEN <<>>
    ELSE IF Len(s) <= n THEN <<s>>
    ELSE <<Slice(s, 0, n)>> \o Chunks(SliceFrom(s, n), n)

RECURSIVE Flatten(_)
\* iter().flatten().cloned().collect()
Flatten(chunks) ==
    IF chunks = <<>> THEN <<>> ELSE chunks[1] \o Flatten(Tail(chunks))

RECURSIVE Join(_, _)
\* [String]::join(sep)
Join(parts, sep) ==
    IF parts = <<>> THEN <<>>
    ELSE IF Len(parts) = 1 THEN parts[1]
    ELSE parts[1] \o <<sep>> \o Join(Tail(parts), sep)

RECURSIVE Split(_, _)
\* str::split(sep): one more part than there are separators
Split(s, sep) ==
    LET p == Position(s, sep)
    IN  IF p = -1 THEN <<s>>
        ELSE <<Slice(s, 0, p)>> \o Split(SliceFrom(s, p + 1), sep)

\* chars().next(): the bytes of the first char of a String, [some, v]
FirstChar(s) ==
    IF s = <<>> THEN None(<<>>) ELSE Some(Slice(s, 0, Utf8Step(s).len))

-----------------------------------------------------------------------------
(* FileTree::parse and FileTree::to_bencode.  A local of the source that is *)
(* read more than once is a parameter of the operator that reads it.        *)

\* Option<Vec<u8>> of a looked-up entry: Some when it is a String
StringOption(entry) ==
    IF entry.found /\ entry.v.t = "String" THEN Some(entry.v.s) ELSE None(<<>>)

\* the File arm: length and pieces_root looked up in the descriptor
FileTree_file(name, length, root) ==
    IF length.found /\ length.v.t = "Integer"
    THEN Parsed(FileNode(name, AsU32(length.v.i), StringOption(root)))
    ELSE ParsePanic("Invalid or missing length field")

\* the Directory arm: the children parsed from the entry
FileTree_directory(name, sub) ==
    IF sub.kind = "panic" THEN sub ELSE Parsed(DirectoryNode(name, sub.data))

\* content.push(...): the vector so far and the node parsed for this entry
FileTree_push(content, node) ==
    IF node.kind = "panic" THEN node ELSE Parsed(Append(content.data, node.data))

RECURSIVE FileTree_parse(_)
RECURSIVE FileTree_loop(_, _)

\* one entry (k, v) of the dictionary: the node it becomes; descr is
\* child.get(b"")
FileTree_entry(k, v, descr) ==
    IF ~IsUtf8(k) THEN ParsePanic("unwrap on Err: FromUtf8Error")
    ELSE IF v.t # "Dictionary" THEN ParsePanic("Expected dictionary")
    ELSE IF descr.found /\ descr.v.t = "Dictionary"
         THEN FileTree_file(k, Get(descr.v.d, k_length), Get(descr.v.d, k_pieces_root))
    ELSE FileTree_directory(k, FileTree_parse(v))

\* a turn of the loop, after the turns before it
FileTree_turn(content, entry) ==
    IF content.kind = "panic" THEN content
    ELSE FileTree_push(content, FileTree_entry(entry.k, entry.v, Get(entry.v.d, <<>>)))

\* the first n turns of the loop over file_tree_dict
FileTree_loop(dict, n) ==
    IF n = 0 THEN Parsed(<<>>)
    ELSE FileTree_turn(FileTree_loop(dict, n - 1), dict[n])

\* FileTree::parse(file_tree: &Bencode) -> Vec<FileTree>
FileTree_parse(file_tree) ==
    IF file_tree.t # "Dictionary"
    THEN ParsePanic("Expected dictionary when parsing file tree")
    ELSE FileTree_loop(file_tree.d, Len(file_tree.d))

\* a description that leaves the pieces root out: {"": {length}}
DescriptionWithoutRoot(file) ==
    BDictionary(<<Entry(<<>>, BDictionary(
        <<Entry(k_length, BInteger(U32ToI64(file.length)))>>))>>)

\* the description of a File: {"": {length, pieces root}}
FileTree_description(file) ==
    BDictionary(<<Entry(<<>>, BDictionary(
        <<Entry(k_length, BInteger(U32ToI64(file.length)))>>
            \o (IF file.pieces_root.some
                THEN <<Entry(k_pieces_root, BString(file.pieces_root.v))>>
                ELSE <<>>)))>>)

RECURSIVE FileTree_to_bencode(_)
RECURSIVE FileTree_contents(_, _)

\* file_tree.insert(name, ...) for one of the contents
FileTree_insert(file_tree, content, sub) ==
    IF file_tree.kind = "panic" THEN file_tree
    ELSE IF content.t = "File"
         THEN Parsed(Insert(file_tree.data, content.name, FileTree_description(content)))
    ELSE IF sub.kind = "panic" THEN sub
    ELSE Parsed(Insert(file_tree.data, content.name, sub.data))

\* the first n turns of the loop over contents
FileTree_contents(contents, n) ==
    IF n = 0 THEN Parsed(<<>>)
    ELSE FileTree_insert(FileTree_contents(contents, n - 1), contents[n],
                         FileTree_to_bencode(contents[n]))

\* Bencode::Dictionary(file_tree)
FileTree_wrap(file_tree) ==
    IF file_tree.kind = "panic" THEN file_tree ELSE Parsed(BDictionary(file_tree.data))

\* FileTree::to_bencode(&self) -> Bencode
FileTree_to_bencode(tree) ==
    IF tree.t # "Directory"
    THEN ParsePanic("It is only possible to convert directories to Bencode")
    ELSE FileTree_wrap(FileTree_contents(tree.children, Len(tree.children)))

-----------------------------------------------------------------------------
(* Info::parse and Info::to_bencode                                        *)

RECURSIVE PathComponents(_, _)
\* the filter_map over path_list: the text of every String component
PathComponents(path_list, n) ==
    IF n = 0 THEN <<>>
    ELSE IF path_list[n].t = "String"
         THEN Append(PathComponents(path_list, n - 1), from_utf8_lossy(path_list[n].s))
    ELSE PathComponents(path_list, n - 1)

\* the FileV1 of one Dictionary of `files`, from its four looked-up entries;
\* first is chars().next() of the attr text
FileV1_from(attr, first, length, md5sum, path) ==
    IF attr.found /\ attr.v.t = "String" /\ ~first.some
    THEN ParsePanic("unwrap on None")
    ELSE IF ~(length.found /\ length.v.t = "Integer")
         THEN ParsePanic("Invalid or missing length field")
    ELSE IF ~(path.found /\ path.v.t = "List")
         THEN ParsePanic("Invalid or missing path field")
    ELSE Parsed(FileV1(AsU32(length.v.i),
                       StringOption(md5sum),
                       Join(PathComponents(path.v.l, Len(path.v.l)), b_slash),
                       IF attr.found /\ attr.v.t = "String"
                       THEN Some(first.v) ELSE None(<<>>)))

\* one entry of the `files` list that is a Dictionary: the FileV1 pushed
ParseFileV1(file) ==
    FileV1_from(Get(file, k_attr),
                FirstChar(from_utf8_lossy(Get(file, k_attr).v.s)),
                Get(file, k_length), Get(file, k_md5sum), Get(file, k_path))

\* files_vec.push(...)
Files_push(files_vec, file) ==
    IF file.kind = "panic" THEN file ELSE Parsed(Append(files_vec.data, file.data))

\* a turn of the loop over files_list; an entry that is no Dictionary is
\* skipped
Files_turn(files_vec, file_bencode) ==
    IF files_vec.kind = "panic" THEN files_vec
    ELSE IF file_bencode.t # "Dictionary" THEN files_vec
    ELSE Files_push(files_vec, ParseFileV1(file_bencode.d))

RECURSIVE ParseFiles(_, _)
\* the first n turns of the loop over files_list
ParseFiles(files_list, n) ==
    IF n = 0 THEN Parsed(<<>>)
    ELSE Files_turn(ParseFiles(files_list, n - 1), files_list[n])

\* the locals of Info::parse before its loop
InfoLocals ==
    [name |-> <<>>, piece_length |-> ZeroU32, meta_version |-> 0,
     file_tree |-> DefaultFileTree, pieces |-> None(<<>>), private |-> None(FALSE),
     length |-> None(ZeroU32), md5sum |-> None(<<>>), files |-> None(<<>>),
     panic |-> ""]

\* the "file tree" arm
Info_file_tree(acc, tree) ==
    IF tree.kind = "panic" THEN [acc EXCEPT !.panic = tree.msg]
    ELSE [acc EXCEPT !.file_tree = DirectoryNode(<<>>, tree.data)]

\* the "files" arm, value being a List
Info_files(acc, files) ==
    IF files.kind = "panic" THEN [acc EXCEPT !.panic = files.msg]
    ELSE [acc EXCEPT !.files = Some(files.data)]

\* the match on the key's text, for a value of the variant the arm expects
Info_arm(acc, text, value) ==
    CASE text = k_name /\ value.t = "String" ->
            [acc EXCEPT !.name = from_utf8_lossy(value.s)]
      [] text = k_piece_length /\ value.t = "Integer" ->
            [acc EXCEPT !.piece_length = AsU32(value.i)]
      [] text = k_meta_version /\ value.t = "Integer" ->
            [acc EXCEPT !.meta_version = AsU8(value.i)]
      [] text = k_file_tree -> Info_file_tree(acc, FileTree_parse(value))
      [] text = k_pieces /\ value.t = "String" ->
            [acc EXCEPT !.pieces = Some(Chunks(value.s, 20))]
      [] text = k_private /\ value.t = "Integer" ->
            [acc EXCEPT !.private = Some(value.i # Zero64)]
      [] text = k_length /\ value.t = "Integer" ->
            [acc EXCEPT !.length = Some(AsU32(value.i))]
      [] text = k_md5sum /\ value.t = "String" ->
            [acc EXCEPT !.md5sum = Some(value.s)]
      [] text = k_files /\ value.t = "List" ->
            Info_files(acc, ParseFiles(value.l, Len(value.l)))
      [] OTHER -> acc

\* a turn that reads no entry once files is set, as a loop that breaks there
EntryUntilFiles(acc, key, value) ==
    IF acc.panic # "" \/ acc.files.some THEN acc
    ELSE Info_arm(acc, from_utf8_lossy(key), value)

\* one turn of the loop of Info::parse
InfoEntry(acc, key, value) ==
    IF acc.panic # "" THEN acc ELSE Info_arm(acc, from_utf8_lossy(key), value)

RECURSIVE Info_loop(_, _)
\* the first n turns of the loop over info_dict
Info_loop(dict, n) ==
    IF n = 0 THEN InfoLocals
    ELSE InfoEntry(Info_loop(dict, n - 1), dict[n].k, dict[n].v)

\* the file_mode and the Info built after the loop
Info_build(acc) ==
    IF acc.panic # "" THEN ParsePanic(acc.panic)
    ELSE Parsed([name |-> acc.name, piece_length |-> acc.piece_length,
                 meta_version |-> acc.meta_version, file_tree |-> acc.file_tree,
                 pieces |-> acc.pieces, private |-> acc.private,
                 file_mode |->
                    IF acc.files.some THEN MultipleMode(acc.files.v)
                    ELSE IF acc.length.some
                         THEN SingleMode(acc.length.v,
                                         Some(IF acc.md5sum.some
                                              THEN acc.md5sum.v ELSE <<>>))
                    ELSE NoFileMode])

\* Info::parse(info: &Bencode) -> Info
Info_parse(info) ==
    IF info.t # "Dictionary" THEN ParsePanic("Error parsing torrent file")
    ELSE Info_build(Info_loop(info.d, Len(info.d)))

\* map(|component| Bencode::String(...)) over the split path
PathList(parts) == BList([n \in 1..Len(parts) |-> BString(parts[n])])

\* m.insert(key, value) when the Option is Some
InsertSome(m, key, option, value) ==
    IF option.some THEN Insert(m, key, value) ELSE m

\* the Dictionary built for one FileV1 of FileModeV1::Multiple
FileV1_to_bencode(file) ==
    BDictionary(
        Insert(
            InsertSome(
                Insert(
                    InsertSome(<<>>, k_attr, file.attr, BString(file.attr.v)),
                    k_length, BInteger(U32ToI64(file.length))),
                k_md5sum, file.md5sum, BString(file.md5sum.v)),
            k_path, PathList(Split(file.path, b_slash))))

\* the `if let Some(file_mode)` block: what it inserts after "file tree"
Info_file_mode(info, mode) ==
    CASE mode.t = "Single" ->
            InsertSome(Insert(info, k_length, BInteger(U32ToI64(mode.length))),
                       k_md5sum, mode.md5sum, BString(mode.md5sum.v))
      [] mode.t = "Multiple" ->
            Insert(info, k_files,
                   BList([n \in 1..Len(mode.files) |-> FileV1_to_bencode(mode.files[n])]))
      [] OTHER -> info

\* the inserts after the file mode with name ahead of meta version
RestNameFirst(info, self_) ==
    InsertSome(
        InsertSome(
            Insert(
                Insert(
                    Insert(info, k_name, BString(self_.name)),
                    k_meta_version, BInteger(U8ToI64(self_.meta_version))),
                k_piece_length, BInteger(U32ToI64(self_.piece_length))),
            k_private, self_.private,
            BInteger(IF self_.private.v THEN I64(1) ELSE I64(0))),
        k_pieces, self_.pieces, BString(Flatten(self_.pieces.v)))

\* the inserts after the file mode
Info_rest(info, self_) ==
    InsertSome(
        InsertSome(
            Insert(
                Insert(
                    Insert(info, k_meta_version, BInteger(U8ToI64(self_.meta_version))),
                    k_name, BString(self_.name)),
                k_piece_length, BInteger(U32ToI64(self_.piece_length))),
            k_private, self_.private,
            BInteger(IF self_.private.v THEN I64(1) ELSE I64(0))),
        k_pieces, self_.pieces, BString(Flatten(self_.pieces.v)))

\* the map built from the Dictionary of the file tree
Info_from_tree(file_tree, self_) ==
    IF file_tree.kind = "panic" THEN file_tree
    ELSE Parsed(BDictionary(
            Info_rest(Info_file_mode(Insert(<<>>, k_file_tree, file_tree.data),
                                     self_.file_mode),
                      self_)))

\* Info::to_bencode(&self) -> Bencode
Info_to_bencode(self_) ==
    Info_from_tree(FileTree_to_bencode(self_.file_tree), self_)

-----------------------------------------------------------------------------
(* Torrent::parse.  piece_layers, a HashMap, is the set of its pairs.       *)

\* the locals of Torrent::parse before its loop
TorrentLocals ==
    [announce |-> <<>>, info |-> DefaultInfo, piece_layers |-> {}, panic |-> ""]

\* the map over piece_layers_dict collected into the HashMap
PieceLayers(dict) ==
    IF \E j \in 1..Len(dict) : dict[j].v.t # "String"
    THEN [kind |-> "panic", data |-> {}, msg |-> "Invalid piece layer value"]
    ELSE [kind |-> "ok", data |-> {<<dict[j].k, dict[j].v.s>> : j \in 1..Len(dict)},
          msg |-> ""]

\* `field = <call>`: the call's panic ends the parse, its value is assigned
Torrent_assign(acc, field, outcome) ==
    IF outcome.kind = "panic" THEN [acc EXCEPT !.panic = outcome.msg]
    ELSE [acc EXCEPT ![field] = outcome.data]

\* the match on key.as_str()
Torrent_arm(acc, key, v) ==
    CASE key = k_announce ->
            IF v.t = "String" THEN [acc EXCEPT !.announce = from_utf8_lossy(v.s)]
            ELSE [acc EXCEPT !.panic = "Invalid or missing announce field"]
      [] key = k_info -> Torrent_assign(acc, "info", Info_parse(v))
      [] key = k_piece_layers ->
            IF v.t = "Dictionary"
            THEN Torrent_assign(acc, "piece_layers", PieceLayers(v.d))
            ELSE [acc EXCEPT !.piece_layers = {}]
      [] OTHER -> [acc EXCEPT !.panic = "Invalid key in metainfo"]

\* one turn of the loop of Torrent::parse
TorrentEntry(acc, k, v) ==
    IF acc.panic # "" THEN acc
    ELSE IF ~IsUtf8(k) THEN [acc EXCEPT !.panic = "unwrap on Err: FromUtf8Error"]
    ELSE Torrent_arm(acc, k, v)

RECURSIVE Torrent_loop(_, _)
\* the first n turns of the loop over metainfo_dict
Torrent_loop(dict, n) ==
    IF n = 0 THEN TorrentLocals
    ELSE TorrentEntry(Torrent_loop(dict, n - 1), dict[n].k, dict[n].v)

\* the Torrent returned after the loop
Torrent_build(acc) ==
    IF acc.panic # "" THEN ParsePanic(acc.panic)
    ELSE Parsed([announce |-> acc.announce, info |-> acc.info,
                 piece_layers |-> acc.piece_layers])

\* Torrent::parse(metainfo: &Bencode) -> Torrent
Torrent_parse(metainfo) ==
    IF metainfo.t # "Dictionary" THEN ParsePanic("Error parsing torrent file")
    ELSE Torrent_build(Torrent_loop(metainfo.d, Len(metainfo.d)))

-----------------------------------------------------------------------------
(* The inputs the model draws.                                             *)

\* payloads of the byte-strings: empty, "a", "e"
Payloads == {<<>>, <<97>>, <<b_e>>}

\* the integers: 0, -1, 10
Numbers == {I64(0), I64(-1), I64(10)}

\* keys of the dictionaries, String in the codec: "a", "b"
DictKeys == {<<97>>, <<98>>}

Atoms == {BString(s) : s \in Payloads} \cup {BInteger(i) : i \in Numbers}

RECURSIVE Cup(_, _)
\* the union of the sets f[1], ..., f[n]; the left operand is enumerated first,
\* so that TLC holds it sorted and searches it instead of scanning it
Cup(f, n) == IF n = 0 THEN {} ELSE {x \in Cup(f, n - 1) : TRUE} \cup f[n]

RECURSIVE ValuesOfSize(_)
RECURSIVE ListsOfSize(_)
RECURSIVE DictsOfSize(_)

\* the values of exactly n nodes; a dictionary's keys are distinct, in any order
ValuesOfSize(n) ==
    IF n < 1 THEN {}
    ELSE Cup(<<IF n = 1 THEN Atoms ELSE {},
               {BList(l) : l \in ListsOfSize(n - 1)},
               {BDictionary(d) : d \in DictsOfSize(n - 1)}>>, 3)

ListsOfSize(m) ==
    IF m = 0 THEN {<<>>}
    ELSE Cup([j \in 1..m |->
                {<<v>> \o l : v \in ValuesOfSize(j), l \in ListsOfSize(m - j)}], m)

DictsOfSize(m) ==
    IF m = 0 THEN {<<>>}
    ELSE Cup([j \in 1..m |->
                {<<Entry(t[1], t[2])>> \o t[3]
                    : t \in {tt \in DictKeys \X ValuesOfSize(j) \X DictsOfSize(m - j)
                                : tt[1] \notin Keys(tt[3])}}], m)

Values == Cup([n \in 1..MaxNodes |-> ValuesOfSize(n)], MaxNodes)

\* the term that follows the first one in a buffer of two terms
Followers == {BInteger(I64(0)), BString(<<97>>), BList(<<>>)}

\* bytes of the raw inputs: 0 1 : i e l d - a
Alphabet == {b_0, 49, b_colon, b_i, b_e, b_l, b_d, b_minus, 97}

RECURSIVE SeqsUpTo(_, _)
\* the sequences over S of length at most n
SeqsUpTo(S, n) ==
    IF n = 0 THEN {<<>>}
    ELSE LET shorter == SeqsUpTo(S, n - 1)
         IN  shorter \cup {Append(q, b) : q \in shorter, b \in S}

RawInputs == SeqsUpTo(Alphabet, MaxBufLen)

\* bytes between i and e: 0 3 5 - + a
IntAlphabet == {b_0, 51, 53, b_minus, b_plus, 97}

IntTexts == SeqsUpTo(IntAlphabet, MaxDigits)

\* i<s>e
IntTerm(s) == <<b_i>> \o s \o <<b_e>>

IntInputs == {IntTerm(s) : s \in IntTexts}

\* every strict prefix of the encoding of a value, the empty input included
TruncatedInputs ==
    LET encodings == {encode_value(v) : v \in Values}
        longest == CHOOSE n \in {Len(x) : x \in encodings}
                        : \A x \in encodings : Len(x) <= n
    IN  {Slice(q[1], 0, q[2])
            : q \in {p \in encodings \X (0..(longest - 1)) : p[2] < Len(p[1])}}

\* the first piece root of the test torrent (src/src/main.rs:544): 32 bytes,
\* not UTF-8
PiecesRoot ==
    <<200, 126, 44, 167, 113, 186, 182, 2, 76, 38, 155, 147, 51, 137, 210, 169,
      45, 73, 65, 200, 72, 197, 47, 21, 91, 155, 132, 225, 241, 9, 254, 53>>

\* keys that are not UTF-8
BinaryKeys == {<<255>>, PiecesRoot}

\* a dictionary of one or two entries with a key that is not UTF-8, encoded
BinaryKeyInputs ==
    {encode_value(BDictionary(<<Entry(k, v)>>)) : k \in BinaryKeys, v \in Atoms}
        \cup {encode_value(BDictionary(<<Entry(<<97>>, v)>> \o <<Entry(k, w)>>))
                : k \in BinaryKeys, v \in Atoms, w \in Atoms}

\* values of the info dictionaries drawn, key by key: of the expected variant
\* and of another one, in and out of the range of the field
Tree1 ==
    BDictionary(<<
        Entry(<<102>>, BDictionary(<<Entry(<<>>, BDictionary(<<
            Entry(k_length, BInteger(I64(20))),
            Entry(k_pieces_root, BString(PiecesRoot))>>))>>)),
        Entry(<<100>>, BDictionary(<<
            Entry(<<103>>, BDictionary(<<Entry(<<>>, BDictionary(<<
                Entry(k_length, BInteger(I64(70000)))>>))>>))>>))>>)

\* 20 bytes, one SHA-1 digest
Hash20 == [n \in 1..20 |-> n]

FileEntry1 ==
    BDictionary(<<Entry(k_attr, BString(<<112>>)),
                  Entry(k_length, BInteger(I64(20))),
                  Entry(k_path, BList(<<BString(<<100>>), BString(<<102>>)>>))>>)

FileEntry2 ==
    BDictionary(<<Entry(k_length, BInteger(I64(5))),
                  Entry(k_md5sum, BString(<<109>>)),
                  Entry(k_path, BList(<<>>))>>)

FileEntry3 ==
    BDictionary(<<Entry(k_path, BList(<<BString(<<102>>)>>))>>)

\* the four keys of an entry of `files`, in the reverse of the order of the
\* inserts of Info::to_bencode, with a path of two segments
FileEntry4 ==
    BDictionary(<<Entry(k_path, BList(<<BString(<<100>>), BString(<<103>>)>>)),
                  Entry(k_md5sum, BString(<<109>>)),
                  Entry(k_length, BInteger(I64(5))),
                  Entry(k_attr, BString(<<120>>))>>)

\* an entry of `files` whose path has one segment that is not UTF-8
FileEntry5 ==
    BDictionary(<<Entry(k_length, BInteger(I64(5))),
                  Entry(k_path, BList(<<BString(<<255>>)>>))>>)

InfoOptions ==
    {Entry(k_name, v) : v \in {BString(<<97>>), BString(<<255>>), BInteger(I64(1))}}
    \cup {Entry(k_piece_length, v)
            : v \in {BInteger(I64(16384)), BInteger(I64(-1)), BString(<<97>>)}}
    \cup {Entry(k_meta_version, v) : v \in {BInteger(I64(2)), BInteger(I64(258))}}
    \cup {Entry(k_file_tree, v) : v \in {BDictionary(<<>>), Tree1, BInteger(I64(0))}}
    \cup {Entry(k_pieces, v) : v \in {BString(Hash20), BString(Hash20 \o <<21>>)}}
    \cup {Entry(k_private, v)
            : v \in {BInteger(I64(0)), BInteger(I64(1)), BInteger(I64(2))}}
    \cup {Entry(k_length, BInteger(I64(20)))}
    \cup {Entry(k_md5sum, BString(<<109>>))}
    \cup {Entry(k_files, v)
            : v \in {BList(<<FileEntry1>>), BList(<<FileEntry2, BInteger(I64(0))>>),
                     BList(<<FileEntry3>>), BList(<<FileEntry4>>),
                     BList(<<FileEntry5>>)}}
    \cup {Entry(<<120>>, BInteger(I64(0)))}

RECURSIVE DictsUpTo(_, _)
\* the dictionaries of at most n entries drawn from options, keys distinct
DictsUpTo(options, n) ==
    IF n = 0 THEN {<<>>}
    ELSE LET shorter == DictsUpTo(options, n - 1)
         IN  shorter \cup {Append(d, e) : d \in shorter, e \in options}

\* an info dictionary of the shape of the test torrent's: every key the model
\* knows but the single-file ones, in the order Info::to_bencode emits
SampleInfo ==
    BDictionary(<<Entry(k_file_tree, Tree1),
                  Entry(k_files, BList(<<FileEntry1>>)),
                  Entry(k_meta_version, BInteger(I64(2))),
                  Entry(k_name, BString(<<97>>)),
                  Entry(k_piece_length, BInteger(I64(65536))),
                  Entry(k_pieces, BString(Hash20))>>)

InfoDicts ==
    {BDictionary(d) : d \in {dd \in DictsUpTo(InfoOptions, MaxInfoKeys)
                                : Cardinality(Keys(dd)) = Len(dd)}}
        \cup {SampleInfo}

\* what the driver hands to decode_value when it starts from bytes
Inputs == Cup(<<RawInputs, IntInputs, TruncatedInputs, BinaryKeyInputs>>, 4)

\* bytes appended to a buffer that was decoded: "e", "0", "i1e"
Extensions == {<<b_e>>, <<b_0>>, <<b_i, 49, b_e>>}

\* what stands under a name of a file tree: no dictionary, an empty
\* dictionary, and the dictionaries a leaf descriptor is drawn from, with a
\* length in the range of u32 (20), below it (-1) and above it (2^32 + 5), of
\* another variant, and with no length
TreeLeaves ==
    {BInteger(I64(0)), BDictionary(<<>>),
     BDictionary(<<Entry(k_length, BInteger(I64(20))),
                   Entry(k_pieces_root, BString(PiecesRoot))>>),
     BDictionary(<<Entry(k_length, BInteger(I64(-1)))>>),
     BDictionary(<<Entry(k_length, BInteger(<<5, 0, 1, 0>>))>>),
     BDictionary(<<Entry(k_length, BString(<<97>>))>>)}

RECURSIVE TreeValuesOfSize(_)
RECURSIVE TreeEntriesOfSize(_)

\* the values of exactly n entries, under the names "", "a" and "b"
TreeValuesOfSize(n) ==
    (IF n = 0 THEN TreeLeaves ELSE {})
        \cup {BDictionary(d) : d \in TreeEntriesOfSize(n)}

\* the dictionaries of exactly m entries, those of their values included
TreeEntriesOfSize(m) ==
    IF m = 0 THEN {<<>>}
    ELSE Cup([j \in 1..m |->
                {<<Entry(t[1], t[2])>> \o t[3]
                    : t \in {tt \in {<<>>, <<97>>, <<98>>} \X TreeValuesOfSize(j - 1)
                                        \X TreeEntriesOfSize(m - j)
                                : tt[1] \notin Keys(tt[3])}}], m)

\* what the driver hands to FileTree::parse
TreeInputs ==
    Cup([n \in 1..(MaxTreeEntries + 1) |-> TreeValuesOfSize(n - 1)], MaxTreeEntries + 1)

\* what the driver hands to Torrent::parse: a value that is no dictionary, and
\* the dictionaries of some of the three keys and of a key "x", each with a
\* value of the expected variant and of another one
RootInputs ==
    {BInteger(I64(0))} \cup
    {BDictionary(d) :
        d \in {dd \in DictsUpTo(
                    {Entry(k_announce, v) : v \in {BString(<<97>>), BInteger(I64(0))}}
                    \cup {Entry(k_info, v)
                            : v \in {BDictionary(<<>>), BInteger(I64(0)),
                                     BDictionary(<<Entry(k_name, BString(<<97>>))>>)}}
                    \cup {Entry(k_piece_layers, v)
                            : v \in {BDictionary(<<>>), BInteger(I64(0)),
                                     BDictionary(<<Entry(PiecesRoot, BString(Hash20))>>),
                                     BDictionary(<<Entry(PiecesRoot, BString(Hash20)),
                                                   Entry(<<97>>, BInteger(I64(0)))>>)}}
                    \cup {Entry(<<120>>, BInteger(I64(0)))},
                    MaxRootKeys)
                : Cardinality(Keys(dd)) = Len(dd)}}

-----------------------------------------------------------------------------
(* The driver: a caller of the codec.                                      *)

NoOutcome == [kind |-> "none", v |-> NoValue, rest |-> <<>>, msg |-> ""]
NoParse == [kind |-> "none", data |-> <<>>, msg |-> ""]

\* the caller builds a Bencode value
InitValue ==
    /\ pc = "value"
    /\ self \in Values
    /\ buf = <<>>

\* the caller reads bytes
InitBytes ==
    /\ pc = "bytes"
    /\ self = NoValue
    /\ buf \in Inputs

\* the caller holds the info dictionary of a document; buf is its bytes
InitInfo ==
    /\ pc = "info"
    /\ self \in InfoDicts
    /\ buf = encode_value(self)

Init ==
    /\ InitValue \/ InitBytes \/ InitInfo
    /\ before = NoValue
    /\ out = <<>>
    /\ prev = <<>>
    /\ calls = 0
    /\ tail = <<>>
    /\ res = NoOutcome
    /\ base = NoOutcome
    /\ parsed = NoParse
    /\ rebuilt = NoParse
    /\ other = NoParse
    /\ stack = <<>>

\* self.encode_value(), at most twice
Encode ==
    /\ pc \in {"value", "encoded"}
    /\ calls < 2
    /\ before' = self
    /\ prev' = out
    /\ out' = encode_value(self)
    /\ self' = encode_value_self(self)
    /\ calls' = calls + 1
    /\ pc' = "encoded"
    /\ UNCHANGED <<buf, tail, res, base, parsed, rebuilt, other, stack>>

\* the encoded bytes become the decode input
Feed ==
    /\ pc = "encoded"
    /\ buf' = out
    /\ pc' = "bytes"
    /\ UNCHANGED <<self, before, out, prev, calls, tail, res, base, parsed, rebuilt, other, stack>>

\* the encoded bytes, followed by the encoding of a second value, become the
\* decode input
FeedTwo(v2) ==
    /\ pc = "encoded"
    /\ calls = 1
    /\ tail' = encode_value(v2)
    /\ buf' = out \o encode_value(v2)
    /\ pc' = "bytes"
    /\ UNCHANGED <<self, before, out, prev, calls, res, base, parsed, rebuilt, other, stack>>

\* Bencode::decode_value(buf)
Decode ==
    /\ pc = "bytes"
    /\ res' = decode_value(buf)
    /\ pc' = "decoded"
    /\ UNCHANGED <<self, before, out, prev, calls, buf, tail, base, parsed, rebuilt, other, stack>>

\* Bencode::decode_value on the same buffer with t appended
Extend(t) ==
    /\ pc = "decoded"
    /\ tail = <<>>
    /\ base' = res
    /\ tail' = t
    /\ buf' = buf \o t
    /\ res' = decode_value(buf \o t)
    /\ pc' = "extended"
    /\ UNCHANGED <<self, before, out, prev, calls, parsed, rebuilt, other, stack>>

\* encode_value() on the value decode_value returned
Reencode ==
    /\ pc = "decoded"
    /\ res.kind = "ok"
    /\ prev' = out
    /\ out' = encode_value(res.v)
    /\ res' = [res EXCEPT !.v = encode_value_self(res.v)]
    /\ pc' = "reencoded"
    /\ UNCHANGED <<self, before, calls, buf, tail, base, parsed, rebuilt, other, stack>>

\* Info::parse(&self)
InfoParse ==
    /\ pc = "info"
    /\ parsed' = Info_parse(self)
    /\ pc' = "info_parsed"
    /\ UNCHANGED <<self, before, out, prev, calls, buf, tail, res, base, rebuilt, other, stack>>

\* info.to_bencode() on the Info that Info::parse returned
ToBencode ==
    /\ pc = "info_parsed"
    /\ parsed.kind = "ok"
    /\ rebuilt' = Info_to_bencode(parsed.data)
    /\ pc' = "rebuilt"
    /\ UNCHANGED <<self, before, out, prev, calls, buf, tail, res, base, parsed, other, stack>>

\* info.to_bencode().encode_value(): the bytes that are hashed
EncodeRebuilt ==
    /\ pc = "rebuilt"
    /\ rebuilt.kind = "ok"
    /\ prev' = out
    /\ out' = encode_value(rebuilt.data)
    /\ rebuilt' = [rebuilt EXCEPT !.data = encode_value_self(rebuilt.data)]
    /\ pc' = "hashed"
    /\ UNCHANGED <<self, before, calls, buf, tail, res, base, parsed, other, stack>>

Next ==
    \/ InfoParse
    \/ ToBencode
    \/ EncodeRebuilt
    \/ Encode
    \/ Feed
    \/ \E v2 \in Followers : FeedTwo(v2)
    \/ Decode
    \/ \E t \in Extensions : Extend(t)
    \/ Reencode

Spec == Init /\ [][Next]_vars

-----------------------------------------------------------------------------
(* The driver of the metainfo layer: a caller of the parsers.              *)

\* the caller holds a file tree, a root dictionary or an info dictionary
MetaInit ==
    /\ \/ pc = "tree" /\ self \in TreeInputs /\ buf = <<>>
       \/ pc = "torrent" /\ self \in RootInputs /\ buf = <<>>
       \/ InitInfo
    /\ before = NoValue
    /\ out = <<>>
    /\ prev = <<>>
    /\ calls = 0
    /\ tail = <<>>
    /\ res = NoOutcome
    /\ base = NoOutcome
    /\ parsed = NoParse
    /\ rebuilt = NoParse
    /\ other = NoParse
    /\ stack = <<>>

\* FileTree::parse(&self)
TreeParse ==
    /\ pc = "tree"
    /\ parsed' = FileTree_parse(self)
    /\ pc' = "tree_parsed"
    /\ UNCHANGED <<self, before, out, prev, calls, buf, tail, res, base, rebuilt, other, stack>>

\* to_bencode() on the Directory of the empty name that holds what
\* FileTree::parse returned
TreeToBencode ==
    /\ pc = "tree_parsed"
    /\ parsed.kind = "ok"
    /\ rebuilt' = FileTree_to_bencode(DirectoryNode(<<>>, parsed.data))
    /\ pc' = "tree_rebuilt"
    /\ UNCHANGED <<self, before, out, prev, calls, buf, tail, res, base, parsed, other, stack>>

\* FileTree::parse on the Bencode that to_bencode() returned
TreeReparse ==
    /\ pc = "tree_rebuilt"
    /\ rebuilt.kind = "ok"
    /\ other' = FileTree_parse(rebuilt.data)
    /\ pc' = "tree_reparsed"
    /\ UNCHANGED <<self, before, out, prev, calls, buf, tail, res, base, parsed, rebuilt, stack>>

\* Torrent::parse(&self)
TorrentParse ==
    /\ pc = "torrent"
    /\ parsed' = Torrent_parse(self)
    /\ pc' = "torrent_parsed"
    /\ UNCHANGED <<self, before, out, prev, calls, buf, tail, res, base, rebuilt, other, stack>>

\* Torrent::parse on self without the keys that are none of announce, info and
\* piece layers
TorrentParseKnown ==
    /\ pc = "torrent_parsed"
    /\ self.t = "Dictionary"
    /\ other' = Torrent_parse(BDictionary(SelectSeq(self.d,
                    LAMBDA e : e.k \in {k_announce, k_info, k_piece_layers})))
    /\ pc' = "torrent_compared"
    /\ UNCHANGED <<self, before, out, prev, calls, buf, tail, res, base, parsed, rebuilt, stack>>

\* to_bencode().encode_value() once more on the Info that was hashed
HashAgain ==
    /\ pc = "hashed"
    /\ other.kind = "none"
    /\ prev' = out
    /\ out' = encode_value(Info_to_bencode(parsed.data).data)
    /\ pc' = "hashed_again"
    /\ UNCHANGED <<self, before, calls, buf, tail, res, base, parsed, rebuilt, other, stack>>

\* the caller keeps the bytes that were hashed and starts again from the same
\* info dictionary with its keys in another order p
Permute(p) ==
    /\ pc = "hashed"
    /\ other.kind = "none"
    /\ \E j \in 1..Len(self.d) : p[j] # j
    /\ other' = Parsed(out)
    /\ self' = BDictionary([j \in 1..Len(self.d) |-> self.d[p[j]]])
    /\ buf' = encode_value(BDictionary([j \in 1..Len(self.d) |-> self.d[p[j]]]))
    /\ parsed' = NoParse
    /\ rebuilt' = NoParse
    /\ pc' = "info"
    /\ UNCHANGED <<before, out, prev, calls, tail, res, base, stack>>

MetaNext ==
    \/ TreeParse
    \/ TreeToBencode
    \/ TreeReparse
    \/ TorrentParse
    \/ TorrentParseKnown
    \/ InfoParse
    \/ ToBencode
    \/ EncodeRebuilt
    \/ HashAgain
    \/ \E p \in Permutations(1..Len(self.d)) : Permute(p)

MetaSpec == MetaInit /\ [][MetaNext]_vars

-----------------------------------------------------------------------------
(* decode_value call by call.  stack holds a frame per call that has not   *)
(* returned, the running call last.  In a frame, x is the encoded_value    *)
(* the call received and arm is where the call stands: "enter" before the  *)
(* match; "list" and "dict" at the head of a loop, cur being list_string   *)
(* or dict_string; "item", "key" and "value" while the call it made runs;  *)
(* "keyed" between the call for a key and the call for its value, cur      *)
(* being the rest after the key.  res is what the last call returned, a    *)
(* panic unwinding frame by frame.                                         *)

\* the caller has made no call yet
DecodeInit ==
    /\ pc = "idle"
    /\ self = NoValue
    /\ buf = <<>>
    /\ stack = <<>>
    /\ before = NoValue
    /\ out = <<>>
    /\ prev = <<>>
    /\ calls = 0
    /\ tail = <<>>
    /\ res = NoOutcome
    /\ base = NoOutcome
    /\ parsed = NoParse
    /\ rebuilt = NoParse
    /\ other = NoParse

\* the caller calls decode_value(buf): on a prefix of the encoding of a
\* value, the whole of it included, on raw bytes, or on the encoding of
\* pairs, which self then holds
Begin ==
    /\ pc = "idle"
    /\ \/ /\ self' = NoValue
          /\ \E n \in 1..MaxCallNodes : \E v \in ValuesOfSize(n) :
                \E m \in 0..Len(encode_value(v)) : buf' = Slice(encode_value(v), 0, m)
       \/ /\ self' = NoValue
          /\ buf' \in RawInputs
       \/ \E d \in DictsUpTo({Entry(k, v) : k \in DictKeys,
                                 v \in {BInteger(i) : i \in Numbers}
                                            \cup {BString(<<97>>)}},
                             MaxPairs) :
            /\ self' = BDictionary(d)
            /\ buf' = encode_value(BDictionary(d))
    /\ stack' = <<[x |-> buf', arm |-> "enter", cur |-> <<>>, list |-> <<>>,
                   dict |-> <<>>, key |-> <<>>]>>
    /\ pc' = "call"
    /\ UNCHANGED <<before, out, prev, calls, tail, res, base, parsed, rebuilt, other>>

\* a call that makes no call returns: first() is None, or the first byte
\* opens a string or an integer, or no arm handles it
Leaf ==
    /\ pc = "call"
    /\ stack[Len(stack)].arm = "enter"
    /\ LET x == stack[Len(stack)].x
       IN  /\ IF x = <<>> THEN TRUE ELSE x[1] \notin {b_l, b_d}
           /\ res' = IF x = <<>> THEN Panic("unwrap on None")
                     ELSE IF IsDigit(x[1]) THEN decode_string(x)
                     ELSE IF x[1] = b_i THEN decode_integer(x)
                     ELSE Panic("Unhandled encoded value")
    /\ stack' = SubSeq(stack, 1, Len(stack) - 1)
    /\ pc' = IF Len(stack) = 1 THEN "returned" ELSE "call"
    /\ UNCHANGED <<self, before, out, prev, calls, buf, tail, base, parsed, rebuilt, other>>

\* the b'l' and b'd' arms up to their loop, which would start from the whole
\* of encoded_value
OpenWhole ==
    /\ pc = "call"
    /\ stack[Len(stack)].arm = "enter"
    /\ LET x == stack[Len(stack)].x
       IN  /\ x # <<>>
           /\ x[1] \in {b_l, b_d}
           /\ stack' = [stack EXCEPT ![Len(stack)].arm =
                                        IF x[1] = b_l THEN "list" ELSE "dict",
                                     ![Len(stack)].cur = x]
    /\ UNCHANGED <<pc, self, before, out, prev, calls, buf, tail, res, base, parsed,
                   rebuilt, other>>

\* the b'l' and b'd' arms up to their loop: encoded_value.split_at(1).1
Open ==
    /\ pc = "call"
    /\ stack[Len(stack)].arm = "enter"
    /\ LET x == stack[Len(stack)].x
       IN  /\ x # <<>>
           /\ x[1] \in {b_l, b_d}
           /\ stack' = [stack EXCEPT ![Len(stack)].arm =
                                        IF x[1] = b_l THEN "list" ELSE "dict",
                                     ![Len(stack)].cur = SliceFrom(x, 1)]
    /\ UNCHANGED <<pc, self, before, out, prev, calls, buf, tail, res, base, parsed,
                   rebuilt, other>>

\* Self::decode_value(...) for an item of a list, a key or a value of a
\* dictionary: the call receives cur
Call ==
    /\ pc = "call"
    /\ stack[Len(stack)].arm \in {"list", "dict", "keyed"}
    /\ stack' = Append(
            [stack EXCEPT ![Len(stack)].arm =
                CASE stack[Len(stack)].arm = "list" -> "item"
                  [] stack[Len(stack)].arm = "dict" -> "key"
                  [] stack[Len(stack)].arm = "keyed" -> "value"],
            [x |-> stack[Len(stack)].cur, arm |-> "enter", cur |-> <<>>,
             list |-> <<>>, dict |-> <<>>, key |-> <<>>])
    /\ UNCHANGED <<pc, self, before, out, prev, calls, buf, tail, res, base, parsed,
                   rebuilt, other>>

\* the loop of the b'l' arm after the call for an item: push, then return at
\* b'e' or go round with the rest
ListTurn ==
    /\ pc = "call"
    /\ stack[Len(stack)].arm = "item"
    /\ LET pushed == Append(stack[Len(stack)].list, res.v)
           ends == res.kind = "panic" \/ res.rest = <<>> \/ res.rest[1] = b_e
       IN  /\ res' = IF res.kind = "panic" THEN res
                     ELSE IF res.rest = <<>> THEN Panic("unwrap on None")
                     ELSE IF res.rest[1] = b_e
                          THEN Ok(BList(pushed), SliceFrom(res.rest, 1))
                     ELSE res
           /\ stack' = IF ends THEN SubSeq(stack, 1, Len(stack) - 1)
                       ELSE [stack EXCEPT ![Len(stack)].arm = "list",
                                          ![Len(stack)].cur = res.rest,
                                          ![Len(stack)].list = pushed]
           /\ pc' = IF ends /\ Len(stack) = 1 THEN "returned" ELSE "call"
    /\ UNCHANGED <<self, before, out, prev, calls, buf, tail, base, parsed, rebuilt, other>>

\* the while-let of the b'd' arm after the call for a key: the pattern
\* matches a String only
KeyTurn ==
    /\ pc = "call"
    /\ stack[Len(stack)].arm = "key"
    /\ LET ends == res.kind = "panic" \/ res.v.t # "String"
       IN  /\ res' = IF res.kind = "panic" THEN res
                     ELSE IF res.v.t # "String"
                          THEN Panic("Error decoding Bencode dictionary")
                     ELSE res
           /\ stack' = IF ends THEN SubSeq(stack, 1, Len(stack) - 1)
                       ELSE [stack EXCEPT ![Len(stack)].arm = "keyed",
                                          ![Len(stack)].cur = res.rest,
                                          ![Len(stack)].key = res.v.s]
           /\ pc' = IF ends /\ Len(stack) = 1 THEN "returned" ELSE "call"
    /\ UNCHANGED <<self, before, out, prev, calls, buf, tail, base, parsed, rebuilt, other>>

\* the body of the while-let after the call for a value, which would push the
\* pair instead of inserting it
ValueTurnPush ==
    /\ pc = "call"
    /\ stack[Len(stack)].arm = "value"
    /\ LET inserted == Append(stack[Len(stack)].dict,
                              Entry(stack[Len(stack)].key, res.v))
           ends == \/ res.kind = "panic"
                   \/ ~IsUtf8(stack[Len(stack)].key)
                   \/ res.rest = <<>>
                   \/ res.rest[1] = b_e
       IN  /\ res' = IF res.kind = "panic" THEN res
                     ELSE IF ~IsUtf8(stack[Len(stack)].key)
                          THEN Panic("unwrap on Err: FromUtf8Error")
                     ELSE IF res.rest = <<>> THEN Panic("unwrap on None")
                     ELSE IF res.rest[1] = b_e
                          THEN Ok(BDictionary(inserted), SliceFrom(res.rest, 1))
                     ELSE res
           /\ stack' = IF ends THEN SubSeq(stack, 1, Len(stack) - 1)
                       ELSE [stack EXCEPT ![Len(stack)].arm = "dict",
                                          ![Len(stack)].cur = res.rest,
                                          ![Len(stack)].dict = inserted]
           /\ pc' = IF ends /\ Len(stack) = 1 THEN "returned" ELSE "call"
    /\ UNCHANGED <<self, before, out, prev, calls, buf, tail, base, parsed, rebuilt, other>>

\* the body of the while-let after the call for a value: insert, then return
\* at b'e' or go round with the rest
ValueTurn ==
    /\ pc = "call"
    /\ stack[Len(stack)].arm = "value"
    /\ LET inserted == Insert(stack[Len(stack)].dict, stack[Len(stack)].key, res.v)
           ends == \/ res.kind = "panic"
                   \/ ~IsUtf8(stack[Len(stack)].key)
                   \/ res.rest = <<>>
                   \/ res.rest[1] = b_e
       IN  /\ res' = IF res.kind = "panic" THEN res
                     ELSE IF ~IsUtf8(stack[Len(stack)].key)
                          THEN Panic("unwrap on Err: FromUtf8Error")
                     ELSE IF res.rest = <<>> THEN Panic("unwrap on None")
                     ELSE IF res.rest[1] = b_e
                          THEN Ok(BDictionary(inserted), SliceFrom(res.rest, 1))
                     ELSE res
           /\ stack' = IF ends THEN SubSeq(stack, 1, Len(stack) - 1)
                       ELSE [stack EXCEPT ![Len(stack)].arm = "dict",
                                          ![Len(stack)].cur = res.rest,
                                          ![Len(stack)].dict = inserted]
           /\ pc' = IF ends /\ Len(stack) = 1 THEN "returned" ELSE "call"
    /\ UNCHANGED <<self, before, out, prev, calls, buf, tail, base, parsed, rebuilt, other>>

DecodeNext ==
    \/ Begin
    \/ Leaf
    \/ Open
    \/ Call
    \/ ListTurn
    \/ KeyTurn
    \/ ValueTurn

\* a call that was made keeps running: the thread is not stopped between two
\* steps of decode_value; nothing makes the caller call.  For the call that
\* makes no call the step that is owed is the one that pops its frame, the
\* Leaf step.
DecodeSpec ==
    /\ DecodeInit
    /\ [][DecodeNext]_vars
    /\ WF_vars(Open \/ Call \/ ListTurn \/ KeyTurn \/ ValueTurn)
    /\ WF_stack(/\ pc = "call"
                /\ stack[Len(stack)].arm = "enter"
                /\ IF stack[Len(stack)].x = <<>> THEN TRUE
                   ELSE stack[Len(stack)].x[1] \notin {b_l, b_d}
                /\ stack' = SubSeq(stack, 1, Len(stack) - 1))

-----------------------------------------------------------------------------
(* The codec's contract.                                                   *)

IsSuffix(r, x) == Len(r) <= Len(x) /\ SliceFrom(x, Len(x) - Len(r)) = r

\* C1: round trip.  For every value v of the four variants, empty string,
\* empty list and empty dictionary included, decode_value(encode_value(v))
\* returns exactly (v, empty remainder).
C1_RoundTrip ==
    (pc = "decoded" /\ calls = 1 /\ tail = <<>>) => res = Ok(before, <<>>)

\* C2: canonical stability.  Two encode_value calls in a row on the same
\* value return the same bytes.
C2_EncodeTwiceSame ==
    (pc = "encoded" /\ calls = 2) => out = prev

\* C3: encode is pure.  When encode_value returns, the value is equal to
\* what it was before the call.
C3_EncodeLeavesValue ==
    pc = "encoded" => self = before

\* the first two parts of C4: what a successful decode leaves is a suffix of
\* its input, and bytes appended to the input are appended to the remainder
ConsumesOneTerm ==
    /\ (pc = "decoded" /\ res.kind = "ok") => IsSuffix(res.rest, buf)
    /\ (pc = "extended" /\ base.kind = "ok") => res = Ok(base.v, base.rest \o tail)

\* C4: decode consumes exactly one term.  Whenever decode_value(x) succeeds
\* with (v, r), r is a suffix of x and decode_value(x ++ t) succeeds with
\* (v, r ++ t) for every t; so decoding encode(v1) ++ encode(v2) yields v1
\* with remainder encode(v2).
C4_OneTermOfASequence ==
    /\ ConsumesOneTerm
    /\ (pc = "decoded" /\ calls = 1 /\ tail # <<>>) => res = Ok(before, tail)

\* x is i<s>e with no e in s
IsIntTerm(x) ==
    /\ Len(x) >= 2
    /\ x[1] = b_i
    /\ Position(x, b_e) = Len(x) - 1

\* the s of i<s>e
IntText(x) == Slice(x, 1, Len(x) - 1)

\* the integer grammar of the wire format: an optional '-', then decimal
\* digits with no leading zero except the literal 0, and not -0
ValidIntText(s) ==
    LET digits == IF s # <<>> /\ s[1] = b_minus THEN SliceFrom(s, 1) ELSE s
    IN  /\ digits # <<>>
        /\ \A k \in 1..Len(digits) : IsDigit(digits[k])
        /\ digits[1] = b_0 => Len(digits) = 1
        /\ s # <<b_minus, b_0>>

\* C5: integer grammar.  decode of i<s>e succeeds if and only if s is an
\* optional '-' followed by decimal digits with no leading zero except the
\* literal 0, and s is not -0; every other s is a decode error.
C5_IntegerGrammar ==
    (pc = "decoded" /\ IsIntTerm(buf)) =>
        (res.kind = "ok" <=> ValidIntText(IntText(buf)))

\* the part of C6 about the value: a truncated input yields no value
TruncatedYieldsNoValue ==
    (pc = "decoded" /\ buf \in TruncatedInputs) => res.kind # "ok"

\* C6: on truncated input, the empty input and every strict prefix of a
\* well-formed encoding, decode does not panic and returns no value: the
\* outcome is a decode error reported to the caller.
C6_TruncatedIsAnError ==
    (pc = "decoded" /\ buf \in TruncatedInputs) =>
        res.kind \notin {"ok", "panic"}

\* the empty terms, alone, in a list and as a dictionary value, with the
\* value each encodes
EmptyTerms ==
    { [x |-> <<48, 58>>, v |-> BString(<<>>)],
      [x |-> <<108, 101>>, v |-> BList(<<>>)],
      [x |-> <<100, 101>>, v |-> BDictionary(<<>>)],
      [x |-> <<108, 48, 58, 101>>, v |-> BList(<<BString(<<>>)>>)],
      [x |-> <<108, 108, 101, 101>>, v |-> BList(<<BList(<<>>)>>)],
      [x |-> <<108, 100, 101, 101>>, v |-> BList(<<BDictionary(<<>>)>>)],
      [x |-> <<100, 49, 58, 97, 48, 58, 101>>,
       v |-> BDictionary(<<Entry(<<97>>, BString(<<>>))>>)],
      [x |-> <<100, 49, 58, 97, 108, 101, 101>>,
       v |-> BDictionary(<<Entry(<<97>>, BList(<<>>))>>)],
      [x |-> <<100, 49, 58, 97, 100, 101, 101>>,
       v |-> BDictionary(<<Entry(<<97>>, BDictionary(<<>>))>>)] }

\* C7: empty terms are valid input.  0: decodes to the empty byte-string, le
\* to the empty list and de to the empty dictionary, each with an empty
\* remainder, also inside a list or as a dictionary value.
C7_EmptyTermsDecode ==
    pc = "decoded" => \A e \in EmptyTerms : buf = e.x => res = Ok(e.v, <<>>)

\* the driver encoded a dictionary of at least one entry and decoded the bytes
DecodedADictionary ==
    /\ pc \in {"decoded", "reencoded"}
    /\ calls = 1
    /\ tail = <<>>
    /\ before.t = "Dictionary"
    /\ before.d # <<>>

\* the part of C8 about the order: when the dictionary was decoded, encoding
\* the result gives the input back
OrderKeptWhenDecoded ==
    (DecodedADictionary /\ pc = "reencoded") => out = buf

\* C8: dictionary order is kept end to end.  For a dictionary encoding x
\* whose keys are distinct, in any order, encode_value(decode_value(x).value)
\* equals x byte for byte.
C8_DictionaryOrderKept ==
    DecodedADictionary => (res.kind = "ok" /\ (pc = "reencoded" => out = buf))

\* C9: dictionary keys are arbitrary byte-strings.  Decoding a dictionary
\* that has a key which is not UTF-8 succeeds and keeps the key's bytes.
C9_BinaryKeysDecode ==
    (pc = "decoded" /\ buf \in BinaryKeyInputs) =>
        /\ res.kind = "ok"
        /\ res.rest = <<>>
        /\ \E k \in BinaryKeys : k \in Keys(res.v.d)

-----------------------------------------------------------------------------
(* The metainfo layer's contract.                                          *)

\* the test of the repository (test_info_to_bencode): the info dictionary of
\* the test torrent's shape is re-encoded byte for byte
SampleInfoReencoded ==
    (pc = "hashed" /\ self = SampleInfo) => out = buf

\* C10: info hash agreement.  For every info dictionary d that Info::parse
\* accepts, encode_value(Info::parse(d).to_bencode()) is byte-identical to
\* encode_value(d).
C10_InfoHashAgreement ==
    pc = "hashed" => out = buf

\* C11: FileTree parsing and re-encoding are inverse.  For every tree that
\* FileTree::parse produced, wrapped in the root Directory of the empty name,
\* to_bencode() gives a Bencode and FileTree::parse of it returns the same
\* children: names, sibling order, lengths and optional pieces_root.
C11_TreeRoundTrip ==
    /\ pc = "tree_rebuilt" => rebuilt.kind = "ok"
    /\ pc = "tree_reparsed" => other = parsed

\* a File with a pieces_root followed by a Directory was parsed, re-encoded
\* and parsed again
C11_FileAndDirectoryReparsed ==
    /\ pc = "tree_reparsed"
    /\ Len(parsed.data) = 2
    /\ parsed.data[1].t = "File"
    /\ parsed.data[1].pieces_root.some
    /\ parsed.data[2].t = "Directory"

\* the entry's value is a File by the classification rule: its dictionary
\* holds the key "" mapped to a descriptor dictionary that holds length
IsFileEntry(v) ==
    LET descr == Get(v.d, <<>>)
    IN  /\ descr.found
        /\ descr.v.t = "Dictionary"
        /\ Get(descr.v.d, k_length).found

RECURSIVE Classified(_)
\* what the classification rule makes of the entries of a dictionary, in
\* source order: err where an entry at any depth is no dictionary, else the
\* name and the variant of each node
Classified(dict) ==
    LET node(e) ==
            IF e.v.t # "Dictionary"
            THEN [err |-> TRUE, t |-> "", name |-> e.k, children |-> <<>>]
            ELSE IF IsFileEntry(e.v)
                 THEN [err |-> FALSE, t |-> "File", name |-> e.k, children |-> <<>>]
            ELSE LET sub == Classified(e.v.d)
                 IN  [err |-> sub.err, t |-> "Directory", name |-> e.k,
                      children |-> sub.nodes]
        nodes == [j \in 1..Len(dict) |-> node(dict[j])]
    IN  [err |-> \E j \in 1..Len(dict) : nodes[j].err, nodes |-> nodes]

RECURSIVE Shape(_)
\* the name and the variant of each node of a parsed tree
Shape(nodes) ==
    [j \in 1..Len(nodes) |->
        [err |-> FALSE, t |-> nodes[j].t, name |-> nodes[j].name,
         children |-> Shape(nodes[j].children)]]

\* C12: FileTree classification.  FileTree::parse makes an entry a File
\* exactly when its dictionary holds the key "" mapped to a descriptor
\* dictionary holding length; every other dictionary entry becomes a Directory
\* of the recursive parse of its entries, in source order; an entry that is no
\* dictionary is a structural error.
C12_Classification ==
    (pc = "tree_parsed" /\ self.t = "Dictionary") =>
        LET want == Classified(self.d)
        IN  IF want.err THEN parsed.kind # "ok"
            ELSE parsed.kind = "ok" /\ Shape(parsed.data) = want.nodes

\* C20: every File.length that FileTree::parse stores is the declared length
\* of the leaf descriptor: a descriptor whose length is negative or at least
\* 2^32 never produces a File holding a different number.
C20_FileLengthAsDeclared ==
    (pc = "tree_parsed" /\ parsed.kind = "ok") =>
        \A j \in 1..Len(parsed.data) :
            parsed.data[j].t = "File" =>
                U32ToI64(parsed.data[j].length)
                    = Get(Get(self.d[j].v.d, <<>>).v.d, k_length).v.i

\* C13: forward compatibility.  Torrent::parse on a root dictionary that holds
\* a key other than announce, info and piece layers does not fail, and returns
\* the Torrent it returns for the root without that key.
C13_UnknownKeysIgnored ==
    (pc = "torrent_compared" /\ other.kind = "ok") => parsed = other

\* C14: Torrent::parse returns a Torrent only when the root is a Dictionary
\* that holds the key info with a Dictionary value; none with a default-valued
\* Info is returned.
C14_InfoRequired ==
    (pc = "torrent_parsed" /\ parsed.kind = "ok") =>
        /\ self.t = "Dictionary"
        /\ Get(self.d, k_info).found
        /\ Get(self.d, k_info).v.t = "Dictionary"

\* the root without its piece layers key
WithoutPieceLayers(root) ==
    BDictionary(SelectSeq(root.d, LAMBDA e : e.k # k_piece_layers))

\* the piece layers of the root are missing, no Dictionary, or a Dictionary
\* with a value that is no byte-string
DegradedPieceLayers(root) ==
    LET layers == Get(root.d, k_piece_layers)
    IN  \/ ~layers.found
        \/ layers.v.t # "Dictionary"
        \/ \E j \in 1..Len(layers.v.d) : layers.v.d[j].v.t # "String"

\* the part of C17 about a missing key and a value of another variant: the
\* parse goes on and piece_layers is empty
MissingOrWrongVariantDegrades ==
    (/\ pc = "torrent_parsed"
     /\ self.t = "Dictionary"
     /\ Get(self.d, k_piece_layers).v.t # "Dictionary"
     /\ Torrent_parse(WithoutPieceLayers(self)).kind = "ok") =>
        /\ parsed.kind = "ok"
        /\ parsed.data.piece_layers = {}

\* C17: piece-layers degradation.  When the piece layers key is missing, is
\* no Dictionary, or is a Dictionary with a value that is no byte-string,
\* Torrent::parse does not fail (where it does not fail on the rest of the
\* root) and returns a Torrent whose piece_layers is empty.
C17_PieceLayersDegrade ==
    (/\ pc = "torrent_parsed"
     /\ self.t = "Dictionary"
     /\ DegradedPieceLayers(self)
     /\ Torrent_parse(WithoutPieceLayers(self)).kind = "ok") =>
        /\ parsed.kind = "ok"
        /\ parsed.data.piece_layers = {}

\* C15: schema errors abort the parse.  When an info dictionary holds name,
\* piece length or meta version with a value of the wrong variant, Info::parse
\* fails and no Info carrying a default value for that field is returned.
C15_WrongVariantAborts ==
    (/\ pc = "info_parsed"
     /\ \/ Get(self.d, k_name).v.t \in {"Integer", "List", "Dictionary"}
        \/ Get(self.d, k_piece_length).v.t \in {"String", "List", "Dictionary"}
        \/ Get(self.d, k_meta_version).v.t \in {"String", "List", "Dictionary"}) =>
        parsed.kind # "ok"

\* C16: Info::parse slices pieces into chunks of exactly 20 bytes; when the
\* length of pieces is no multiple of 20 the parse reports a data error, and
\* no Info holding a shorter final chunk is returned.
C16_PiecesInTwenties ==
    (pc = "info_parsed" /\ Get(self.d, k_pieces).v.t = "String") =>
        IF Len(Get(self.d, k_pieces).v.s) % 20 # 0 THEN parsed.kind # "ok"
        ELSE parsed.kind = "ok" =>
                \A j \in 1..Len(parsed.data.pieces.v) :
                    Len(parsed.data.pieces.v[j]) = 20

\* C18: present-only optional fields.  The dictionary built by
\* Info::to_bencode holds each of the keys length, md5sum, files, private and
\* pieces only if the info dictionary the Info was parsed from held it.
C18_OptionalKeysOnlyIfPresent ==
    (pc = "rebuilt" /\ rebuilt.kind = "ok") =>
        \A k \in {k_length, k_md5sum, k_files, k_private, k_pieces} :
            k \in Keys(rebuilt.data.d) => k \in Keys(self.d)

\* C19: the info hash input is a function of the Info fields only.  Two info
\* dictionaries that hold the same keys and values in a different key order
\* parse to Infos whose to_bencode() encodings are byte-identical, and
\* to_bencode() called twice on one Info gives the same bytes.
C19_HashInputOfFieldsOnly ==
    /\ (pc = "hashed" /\ other.kind = "ok") => out = other.data
    /\ pc = "hashed_again" => out = prev

\* an info dictionary of files and name was hashed in both key orders
C19_BothOrdersHashed ==
    /\ pc = "hashed"
    /\ other.kind = "ok"
    /\ Keys(self.d) = {k_files, k_name}
    /\ parsed.data.file_mode.files # <<>>


-----------------------------------------------------------------------------
(* The behaviour the code fixes beyond the contract.                        *)

\* the order of the inserts of Info::to_bencode
InfoKeyOrder ==
    <<k_file_tree, k_length, k_md5sum, k_files, k_meta_version, k_name,
      k_piece_length, k_private, k_pieces>>

\* the order of the inserts into the dictionary of one entry of files
FileKeyOrder == <<k_attr, k_length, k_md5sum, k_path>>

\* the keys of d are in the order of `order`
InOrder(d, order) ==
    [j \in 1..Len(d) |-> d[j].k] = SelectSeq(order, LAMBDA k : k \in Keys(d))

\* the value of files in the dictionary to_bencode built, an empty list when
\* it has none
FilesOf(d) == IF Get(d, k_files).found THEN Get(d, k_files).v.l ELSE <<>>

\* C21: Info::to_bencode emits its keys in one fixed order, whatever the order
\* of the source dictionary: file tree, then length and md5sum (single-file
\* mode) or files (multi-file mode), then meta version, name, piece length,
\* private, pieces; inside each entry of files: attr, length, md5sum, path.
C21_FixedKeyOrder ==
    (pc = "rebuilt" /\ rebuilt.kind = "ok") =>
        /\ InOrder(rebuilt.data.d, InfoKeyOrder)
        /\ {k_file_tree, k_meta_version, k_name, k_piece_length}
                \subseteq Keys(rebuilt.data.d)
        /\ ~({k_length, k_files} \subseteq Keys(rebuilt.data.d))
        /\ k_md5sum \in Keys(rebuilt.data.d) => k_length \in Keys(rebuilt.data.d)
        /\ \A n \in 1..Len(FilesOf(rebuilt.data.d)) :
                /\ InOrder(FilesOf(rebuilt.data.d)[n].d, FileKeyOrder)
                /\ {k_length, k_path} \subseteq Keys(FilesOf(rebuilt.data.d)[n].d)

\* an info dictionary whose keys are name, then files, and whose entry of
\* files holds its four keys in reverse order, was parsed and rebuilt
C21_ReversedSourceRebuilt ==
    /\ pc = "rebuilt"
    /\ rebuilt.kind = "ok"
    /\ Len(self.d) = 2
    /\ self.d[1].k = k_name
    /\ self.d[2] = Entry(k_files, BList(<<FileEntry4>>))
    /\ Len(FilesOf(rebuilt.data.d)) = 1
    /\ Keys(FilesOf(rebuilt.data.d)[1].d) = {k_attr, k_length, k_md5sum, k_path}


\* the entries of the `files` list of the source that are dictionaries: the
\* ones Info::parse pushes a FileV1 for
SourceFiles(d) ==
    IF Get(d, k_files).found /\ Get(d, k_files).v.t = "List"
    THEN SelectSeq(Get(d, k_files).v.l, LAMBDA f : f.t = "Dictionary")
    ELSE <<>>

\* a non-empty list of non-empty byte-strings without '/'
PlainPath(path) ==
    /\ path.found
    /\ path.v.t = "List"
    /\ path.v.l # <<>>
    /\ \A n \in 1..Len(path.v.l) :
            /\ path.v.l[n].t = "String"
            /\ path.v.l[n].s # <<>>
            /\ b_slash \notin Range(path.v.l[n].s)

\* C24: v1 path round trip.  For every entry of the `files` list whose path is
\* a non-empty list of non-empty byte-string segments that contain no '/',
\* Info::parse followed by Info::to_bencode re-emits a path list with the same
\* segments in the same order.
C24_PathRoundTrip ==
    (pc = "rebuilt" /\ rebuilt.kind = "ok") =>
        \A n \in 1..Len(SourceFiles(self.d)) :
            PlainPath(Get(SourceFiles(self.d)[n].d, k_path)) =>
                /\ n <= Len(FilesOf(rebuilt.data.d))
                /\ Get(FilesOf(rebuilt.data.d)[n].d, k_path).v
                        = Get(SourceFiles(self.d)[n].d, k_path).v

\* the same, for the paths whose segments are UTF-8
C24_Utf8PathRoundTrip ==
    (pc = "rebuilt" /\ rebuilt.kind = "ok") =>
        \A n \in 1..Len(SourceFiles(self.d)) :
            (/\ PlainPath(Get(SourceFiles(self.d)[n].d, k_path))
             /\ \A j \in 1..Len(Get(SourceFiles(self.d)[n].d, k_path).v.l) :
                    IsUtf8(Get(SourceFiles(self.d)[n].d, k_path).v.l[j].s)) =>
                /\ n <= Len(FilesOf(rebuilt.data.d))
                /\ Get(FilesOf(rebuilt.data.d)[n].d, k_path).v
                        = Get(SourceFiles(self.d)[n].d, k_path).v


\* every call on the stack received a buffer strictly shorter than its
\* caller's
ShorterThanCaller ==
    \A j \in 2..Len(stack) : Len(stack[j].x) < Len(stack[j - 1].x)

\* the call the driver made has returned a (value, remainder) or panicked,
\* with what decode_value gives for the buffer
Returned ==
    /\ pc = "returned"
    /\ stack = <<>>
    /\ res.kind \in {"ok", "panic"}
    /\ res = decode_value(buf)

\* C22: decode_value terminates on every finite input: each recursive call
\* made for a list item, a dictionary key or a dictionary value receives a
\* buffer strictly shorter than its caller's, so every run ends with either a
\* (value, remainder) result or a decode failure.
C22_Terminates == []ShorterThanCaller /\ ((pc = "call") ~> Returned)

\* three calls are open at once: a value of a dictionary that is an item of a
\* list is being decoded
C22_NestedCalls ==
    /\ Len(stack) = 3
    /\ stack[1].arm = "item"
    /\ stack[2].arm = "value"
    /\ stack[3].arm = "enter"


\* the places of the pairs of d whose key no pair before them holds
FirstAt(d) ==
    SelectSeq([j \in 1..Len(d) |-> j], LAMBDA j : \A n \in 1..(j - 1) : d[n].k # d[j].k)

\* the place of the last pair of d that holds the key k
LastOf(d, k) ==
    CHOOSE j \in 1..Len(d) : d[j].k = k /\ \A n \in (j + 1)..Len(d) : d[n].k # k

\* every key of d once, where it first occurs, with the value of its last
\* occurrence
Merged(d) ==
    [n \in 1..Len(FirstAt(d)) |->
        Entry(d[FirstAt(d)[n]].k, d[LastOf(d, d[FirstAt(d)[n]].k)].v)]

RECURSIVE DistinctKeys(_)
\* no Dictionary of v, v included, has two entries with the same key
DistinctKeys(v) ==
    /\ v.t = "Dictionary" =>
            /\ Cardinality(Keys(v.d)) = Len(v.d)
            /\ \A n \in 1..Len(v.d) : DistinctKeys(v.d[n].v)
    /\ v.t = "List" => \A n \in 1..Len(v.l) : DistinctKeys(v.l[n])

\* C23: duplicate keys.  When a dictionary encoding repeats a key,
\* decode_value does not fail; the decoded Dictionary holds that key once, at
\* the position of its first occurrence and with the value of its last
\* occurrence, so a decoded Dictionary never has two entries with the same key
\* and has at most as many entries as the input has pairs.
C23_DuplicateKeys ==
    /\ (/\ pc = "returned"
        /\ self.t = "Dictionary"
        /\ Cardinality(Keys(self.d)) < Len(self.d)) =>
            /\ res = Ok(BDictionary(Merged(self.d)), <<>>)
            /\ Len(res.v.d) <= Len(self.d)
    /\ (pc = "returned" /\ res.kind = "ok") => DistinctKeys(res.v)

\* the encoding of the pairs a, b, a, with two values for a, was decoded
C23_RepeatedKeyDecoded ==
    /\ pc = "returned"
    /\ self.t = "Dictionary"
    /\ Len(self.d) = 3
    /\ self.d[1].k = self.d[3].k
    /\ self.d[1].k # self.d[2].k
    /\ self.d[1].v # self.d[3].v
    /\ res.kind = "ok"
    /\ Len(res.v.d) = 2

====
